---- MODULE Spec2Model ----
(***************************************************************************)
(* A model of wiremock's ActiveMockSet (src/src/mock_set.rs): the ordered  *)
(* collection of ActiveMocks of one MockServer, the generation counter and *)
(* the MockIds handed out by register.                                     *)
(*                                                                         *)
(* ActiveMock, Mock, ResponseTemplate and VerificationReport live in other *)
(* files of the crate; the operators ActiveMock_* and ResponseTemplate_*   *)
(* below model them from the specification's description of the Stub       *)
(* Record interface.                                                       *)
(*                                                                         *)
(* A panic ends the call it happens in and is recorded in result.outcome;  *)
(* the set stays in the state the call left it in and can be used again.   *)
(* Arithmetic on the u16 generation depends on the build: it panics on     *)
(* overflow with overflow checks and wraps without them, so the build is   *)
(* chosen in Init and both are explored.                                   *)
(***************************************************************************)
EXTENDS Integers, Sequences, FiniteSets

VARIABLES
    mocks,            \* ActiveMockSet.mocks: Vec<ActiveMock>
    generation,       \* ActiveMockSet.generation: u16
    overflow_checks,  \* build profile: TRUE = overflow checks on (debug), FALSE = wrapping (release)
    issued,           \* every MockId returned so far, with the name of the mock it was
                      \* issued for and the number of resets before it was issued
    registrations,    \* history: number of register calls so far
    resets,           \* history: number of reset calls so far
    deactivated,      \* history: names of the mocks of the set a deactivate call resolved to
    answered,         \* history: per mock of the set, the responses callers got from it
    result            \* what the last operation returned to its caller

vars == <<mocks, generation, overflow_checks, issued, registrations, resets,
          deactivated, answered, result>>

----------------------------------------------------------------------------
(* Bounds of the model *)

\* register is called at most this many times in one run
MaxRegistrations == 2
\* reset is called at most this many times in each window (see InWindow)
MaxResets == 1
\* no mock is matched more often than this
MaxCalls == 1

(* Program constants *)

\* u16::MAX, the largest value of ActiveMockSet.generation
U16Max == 65535
\* StatusCode::NotFound
NotFound == 404

----------------------------------------------------------------------------
(* Inputs *)

Requests == {"/a", "/b", "/x"}

\* Option<T>: None is the empty sequence, Some(x) is <<x>>
None == <<>>
Some(x) == <<x>>

\* The mocks a caller registers: what the matcher accepts, the response
\* template (status, optional delay) and the expected number of calls.
MockSpecs ==
    { [matcher |-> {"/a"},       status |-> 200, delay |-> None,    expected |-> 1],
      [matcher |-> {"/b"},       status |-> 201, delay |-> Some(5), expected |-> 1],
      [matcher |-> {"/a", "/b"}, status |-> 202, delay |-> None,    expected |-> 0] }

----------------------------------------------------------------------------
(* ActiveMock and its collaborators *)

\* ActiveMock::new(mock, position_in_set)
ActiveMock_new(mock, position_in_set) ==
    [ name               |-> mock.name,
      matcher            |-> mock.matcher,
      response           |-> [status |-> mock.status, delay |-> mock.delay],
      expected           |-> mock.expected,
      position_in_set    |-> position_in_set,
      active             |-> TRUE,
      n_matched_requests |-> 0 ]

\* ActiveMock::matches(&mut self, request): an inactive mock never matches;
\* a match records one invocation.
ActiveMock_matches(mock, request) ==
    IF ~mock.active
    THEN [matched |-> FALSE, mock |-> mock]
    ELSE IF request \in mock.matcher
         THEN [matched |-> TRUE,
               mock    |-> [mock EXCEPT !.n_matched_requests = @ + 1]]
         ELSE [matched |-> FALSE, mock |-> mock]

\* ActiveMock::response_template(&self, request)
ActiveMock_response_template(mock, request) ==
    [status |-> mock.response.status, delay |-> mock.response.delay, mock |-> mock.name]

\* ResponseTemplate::generate_response
ResponseTemplate_generate_response(template) ==
    [status |-> template.status, mock |-> template.mock]

\* ResponseTemplate::delay
ResponseTemplate_delay(template) == template.delay

\* ActiveMock::verify(&self) -> VerificationReport
ActiveMock_verify(mock) ==
    [ mock               |-> mock.name,
      position_in_set    |-> mock.position_in_set,
      expected           |-> mock.expected,
      n_matched_requests |-> mock.n_matched_requests ]

\* VerificationReport::is_satisfied
VerificationReport_is_satisfied(report) ==
    report.n_matched_requests = report.expected

----------------------------------------------------------------------------
(* Results *)

NoReport == <<>>

Returned(op) ==
    [ op       |-> op,
      outcome  |-> "ok",      \* "ok", or the panic that ended the call
      response |-> None,      \* handle_request: Some(Response)
      delay    |-> None,      \* handle_request: Option<Delay>
      id       |-> None,      \* register: Some(MockId)
      arg      |-> None,      \* the request, or the issued MockId, the call was given
      verdict  |-> "none",    \* verify_all: "Success" | "Failure"
      reports  |-> NoReport ] \* verify_all: the failed reports; verify: the report

Panicked(op, why) == [Returned(op) EXCEPT !.outcome = why]

----------------------------------------------------------------------------
(* ActiveMockSet *)

\* ActiveMockSet::new()
New ==
    /\ mocks = <<>>
    /\ generation = 0
    /\ issued = {}
    /\ registrations = 0
    /\ resets = 0
    /\ deactivated = {}
    /\ answered = <<>>
    /\ result = Returned("new")

\* A run starts from a new set, in a build with or without overflow checks.
Init ==
    /\ overflow_checks \in BOOLEAN
    /\ New

\* The callers of the model work in two windows of the set's life: its
\* first MaxResets resets, and the resets from the U16Max-th on. Between the
\* windows they call nothing but reset (ResetBetween).
InWindow == resets <= MaxResets \/ resets >= U16Max

\* find_match without the break: the last matching mock wins
RECURSIVE find_match_no_break(_, _, _)
find_match_no_break(ms, request, i) ==
    IF i > Len(ms)
    THEN [mocks |-> ms, response_template |-> None]
    ELSE LET m == ActiveMock_matches(ms[i], request)
             after == [ms EXCEPT ![i] = m.mock]
             rest == find_match_no_break(after, request, i + 1)
         IN  IF m.matched /\ rest.response_template = None
             THEN [ mocks |-> after,
                    response_template |->
                        Some(ActiveMock_response_template(m.mock, request)) ]
             ELSE rest

\* the loop of handle_request, from the mock at (1-based) position i on
RECURSIVE find_match(_, _, _)
find_match(ms, request, i) ==
    IF i > Len(ms)
    THEN [mocks |-> ms, response_template |-> None]
    ELSE LET m == ActiveMock_matches(ms[i], request)
             after == [ms EXCEPT ![i] = m.mock]
         IN  IF m.matched
             THEN [ mocks |-> after,
                    response_template |->
                        Some(ActiveMock_response_template(m.mock, request)) ]
             ELSE find_match(after, request, i + 1)

\* handle_request that drops the template's delay
handle_request_no_delay(ms, request) ==
    LET found == find_match(ms, request, 1)
    IN  IF found.response_template # None
        THEN LET response_template == found.response_template[1]
             IN  [ mocks    |-> found.mocks,
                   response |-> ResponseTemplate_generate_response(response_template),
                   delay    |-> None ]
        ELSE [ mocks    |-> found.mocks,
               response |-> [status |-> NotFound, mock |-> 0],
               delay    |-> None ]

\* handle_request answering an unmatched request like a matched one
handle_request_unmatched_ok(ms, request) ==
    LET found == find_match(ms, request, 1)
    IN  IF found.response_template # None
        THEN LET response_template == found.response_template[1]
             IN  [ mocks    |-> found.mocks,
                   response |-> ResponseTemplate_generate_response(response_template),
                   delay    |-> ResponseTemplate_delay(response_template) ]
        ELSE [ mocks    |-> found.mocks,
               response |-> [status |-> 200, mock |-> 0],
               delay    |-> None ]

\* ActiveMockSet::handle_request
handle_request(ms, request) ==
    LET found == find_match(ms, request, 1)
    IN  IF found.response_template # None
        THEN LET response_template == found.response_template[1]
             IN  [ mocks    |-> found.mocks,
                   response |-> ResponseTemplate_generate_response(response_template),
                   delay    |-> ResponseTemplate_delay(response_template) ]
        ELSE [ mocks    |-> found.mocks,
               response |-> [status |-> NotFound, mock |-> 0],
               delay    |-> None ]

HandleRequest ==
    \E request \in Requests :
        LET r == handle_request(mocks, request)
        IN  /\ InWindow
            /\ \A i \in 1..Len(r.mocks) : r.mocks[i].n_matched_requests <= MaxCalls
            /\ mocks' = r.mocks
            /\ result' = [Returned("handle_request") EXCEPT
                              !.arg = Some(request),
                              !.response = Some(r.response), !.delay = r.delay]
            /\ answered' = [n \in DOMAIN answered |->
                               IF n = r.response.mock THEN answered[n] + 1 ELSE answered[n]]
            /\ UNCHANGED <<generation, overflow_checks, issued, registrations, resets,
                           deactivated>>

\* register returning the length after the push as the index
register_off_by_one(ms, gen, mock) ==
    LET n_registered_mocks == Len(ms)
        active_mock == ActiveMock_new(mock, n_registered_mocks)
        pushed == Append(ms, active_mock)
    IN  [ mocks |-> pushed,
          id    |-> [index |-> Len(pushed), generation |-> gen] ]

\* ActiveMockSet::register
register(ms, gen, mock) ==
    LET n_registered_mocks == Len(ms)
        active_mock == ActiveMock_new(mock, n_registered_mocks)
        pushed == Append(ms, active_mock)
    IN  [ mocks |-> pushed,
          id    |-> [index |-> Len(pushed) - 1, generation |-> gen] ]

Register ==
    \E spec \in MockSpecs :
        LET name == registrations + 1
            mock == [ name |-> name, matcher |-> spec.matcher, status |-> spec.status,
                      delay |-> spec.delay, expected |-> spec.expected ]
            r == register(mocks, generation, mock)
        IN  /\ InWindow
            /\ registrations < MaxRegistrations
            /\ mocks' = r.mocks
            /\ registrations' = name
            /\ issued' = issued \cup
                   {[ index |-> r.id.index, generation |-> r.id.generation,
                      mock |-> name, resets |-> resets ]}
            /\ result' = [Returned("register") EXCEPT !.id = Some(r.id)]
            /\ answered' = [n \in DOMAIN answered \cup {name} |->
                               IF n = name THEN 0 ELSE answered[n]]
            /\ UNCHANGED <<generation, overflow_checks, resets, deactivated>>

\* u16 `+=`: with overflow checks the addition panics on overflow, without
\* them it wraps
add_u16(x, y, checks) ==
    IF x + y > U16Max
    THEN IF checks
         THEN [panicked |-> TRUE, value |-> x]
         ELSE [panicked |-> FALSE, value |-> (x + y) % (U16Max + 1)]
    ELSE [panicked |-> FALSE, value |-> x + y]

\* reset incrementing the generation before it replaces the mocks: an
\* overflow panic then leaves the mocks in place
reset_increment_first(ms, gen, checks) ==
    LET sum == add_u16(gen, 1, checks)
    IN  [ mocks      |-> IF sum.panicked THEN ms ELSE <<>>,
          generation |-> sum.value,
          outcome    |-> IF sum.panicked THEN "overflow" ELSE "ok" ]

\* ActiveMockSet::reset: the mocks are replaced first, then the generation
\* is incremented
reset(ms, gen, checks) ==
    LET emptied == <<>>
        sum == add_u16(gen, 1, checks)
    IN  [ mocks      |-> emptied,
          generation |-> sum.value,
          outcome    |-> IF sum.panicked THEN "overflow" ELSE "ok" ]

ResetCall ==
    LET r == reset(mocks, generation, overflow_checks)
    IN  /\ mocks' = r.mocks
        /\ generation' = r.generation
        /\ resets' = resets + 1
        /\ result' = Panicked("reset", r.outcome)
        /\ deactivated' = {}
        /\ answered' = <<>>
        /\ UNCHANGED <<overflow_checks, issued, registrations>>

\* reset, called in a window
Reset ==
    /\ resets < MaxResets \/ (resets >= U16Max /\ resets < U16Max + MaxResets)
    /\ ResetCall

\* reset, called between the windows by a caller that registered one mock
\* before the first reset and nothing since
ResetBetween ==
    /\ resets >= MaxResets /\ resets < U16Max
    /\ issued = {[index |-> 0, generation |-> 0, mock |-> 1, resets |-> 0]}
    /\ ResetCall

\* index without the generation check
index_unchecked(ms, gen, id) ==
    IF id.index >= Len(ms)
    THEN [outcome |-> "out of bounds", position |-> 0]
    ELSE [outcome |-> "ok", position |-> id.index + 1]

\* Index<MockId> / IndexMut<MockId> for ActiveMockSet: the (1-based) position
\* of the mock the id resolves to, or the panic
index(ms, gen, id) ==
    IF id.generation # gen
    THEN [outcome |-> "stale", position |-> 0]
    ELSE IF id.index >= Len(ms)
         THEN [outcome |-> "out of bounds", position |-> 0]
         ELSE [outcome |-> "ok", position |-> id.index + 1]

\* deactivate that flips the flag
deactivate_toggle(ms, gen, mock_id) ==
    LET at == index(ms, gen, mock_id)
    IN  IF at.outcome # "ok"
        THEN [mocks |-> ms, outcome |-> at.outcome]
        ELSE [mocks |-> [ms EXCEPT ![at.position].active = ~@], outcome |-> "ok"]

\* deactivate that clears the flag of every mock of the set
deactivate_all(ms, gen, mock_id) ==
    LET at == index(ms, gen, mock_id)
    IN  IF at.outcome # "ok"
        THEN [mocks |-> ms, outcome |-> at.outcome]
        ELSE [ mocks   |-> [i \in 1..Len(ms) |-> [ms[i] EXCEPT !.active = FALSE]],
               outcome |-> "ok" ]

\* deactivate that clears the flag of a copy of the mock, not of the mock
deactivate_copy(ms, gen, mock_id) ==
    LET at == index(ms, gen, mock_id)
    IN  IF at.outcome # "ok"
        THEN [mocks |-> ms, outcome |-> at.outcome]
        ELSE [mocks |-> ms, outcome |-> "ok"]

\* ActiveMockSet::deactivate
deactivate(ms, gen, mock_id) ==
    LET at == index(ms, gen, mock_id)
    IN  IF at.outcome # "ok"
        THEN [mocks |-> ms, outcome |-> at.outcome]
        ELSE [mocks |-> [ms EXCEPT ![at.position].active = FALSE], outcome |-> "ok"]

MockIdOf(h) == [index |-> h.index, generation |-> h.generation]

Deactivate ==
    \E h \in issued :
        LET r == deactivate(mocks, generation, MockIdOf(h))
        IN  /\ InWindow
            /\ mocks' = r.mocks
            /\ result' = [Panicked("deactivate", r.outcome) EXCEPT !.arg = Some(h)]
            /\ deactivated' = IF index(mocks, generation, MockIdOf(h)).outcome = "ok"
                              THEN deactivated \cup {mocks[h.index + 1].name}
                              ELSE deactivated
            /\ UNCHANGED <<generation, overflow_checks, issued, registrations, resets,
                           answered>>

\* failed_verifications with the filter's negation dropped
RECURSIVE failed_verifications_satisfied(_)
failed_verifications_satisfied(ms) ==
    IF ms = <<>>
    THEN <<>>
    ELSE LET verification_report == ActiveMock_verify(Head(ms))
         IN  IF VerificationReport_is_satisfied(verification_report)
             THEN <<verification_report>> \o failed_verifications_satisfied(Tail(ms))
             ELSE failed_verifications_satisfied(Tail(ms))

\* the iterator chain of verify_all: map(ActiveMock::verify), then keep the
\* reports that are not satisfied, in order
RECURSIVE failed_verifications(_)
failed_verifications(ms) ==
    IF ms = <<>>
    THEN <<>>
    ELSE LET verification_report == ActiveMock_verify(Head(ms))
         IN  IF ~VerificationReport_is_satisfied(verification_report)
             THEN <<verification_report>> \o failed_verifications(Tail(ms))
             ELSE failed_verifications(Tail(ms))

\* verify_all that stops at the first failed verification
verify_all_first_failure(ms) ==
    LET failed == failed_verifications(ms)
    IN  IF failed = <<>>
        THEN [mocks |-> ms, verdict |-> "Success", reports |-> <<>>]
        ELSE [mocks |-> ms, verdict |-> "Failure", reports |-> <<Head(failed)>>]

\* ActiveMockSet::verify_all; it borrows the set as &self, so the mocks are
\* handed back as they were
verify_all(ms) ==
    LET failed == failed_verifications(ms)
    IN  IF failed = <<>>
        THEN [mocks |-> ms, verdict |-> "Success", reports |-> <<>>]
        ELSE [mocks |-> ms, verdict |-> "Failure", reports |-> failed]

VerifyAll ==
    LET r == verify_all(mocks)
    IN  /\ InWindow
        /\ mocks' = r.mocks
        /\ result' = [Returned("verify_all") EXCEPT
                          !.verdict = r.verdict, !.reports = r.reports]
        /\ UNCHANGED <<generation, overflow_checks, issued, registrations, resets,
                       deactivated, answered>>

\* verify that panics when the expectation is not met
verify_asserts_satisfied(ms, gen, mock_id) ==
    LET at == index(ms, gen, mock_id)
    IN  IF at.outcome # "ok"
        THEN [mocks |-> ms, outcome |-> at.outcome, reports |-> NoReport]
        ELSE IF VerificationReport_is_satisfied(ActiveMock_verify(ms[at.position]))
             THEN [ mocks   |-> ms,
                    outcome |-> "ok",
                    reports |-> <<ActiveMock_verify(ms[at.position])>> ]
             ELSE [mocks |-> ms, outcome |-> "unsatisfied", reports |-> NoReport]

\* verify that takes the verified mock out of matching
verify_deactivates(ms, gen, mock_id) ==
    LET at == index(ms, gen, mock_id)
    IN  IF at.outcome # "ok"
        THEN [mocks |-> ms, outcome |-> at.outcome, reports |-> NoReport]
        ELSE [ mocks   |-> [ms EXCEPT ![at.position].active = FALSE],
               outcome |-> "ok",
               reports |-> <<ActiveMock_verify(ms[at.position])>> ]

\* ActiveMockSet::verify; it borrows the set as &self, so the mocks are
\* handed back as they were
verify(ms, gen, mock_id) ==
    LET at == index(ms, gen, mock_id)
    IN  IF at.outcome # "ok"
        THEN [mocks |-> ms, outcome |-> at.outcome, reports |-> NoReport]
        ELSE [ mocks   |-> ms,
               outcome |-> "ok",
               reports |-> <<ActiveMock_verify(ms[at.position])>> ]

Verify ==
    \E h \in issued :
        LET r == verify(mocks, generation, MockIdOf(h))
        IN  /\ InWindow
            /\ mocks' = r.mocks
            /\ result' = [Panicked("verify", r.outcome) EXCEPT
                              !.arg = Some(h), !.reports = r.reports]
            /\ UNCHANGED <<generation, overflow_checks, issued, registrations,
                           resets, deactivated, answered>>

Next ==
    \/ Register
    \/ HandleRequest
    \/ Reset
    \/ ResetBetween
    \/ Deactivate
    \/ VerifyAll
    \/ Verify

Spec == Init /\ [][Next]_vars

----------------------------------------------------------------------------
(* Properties *)

\* the reports of a sequence of verification reports, as a set
Reported(reports) == {reports[k] : k \in 1..Len(reports)}

Unsatisfied(ms) ==
    {i \in 1..Len(ms) : ~VerificationReport_is_satisfied(ActiveMock_verify(ms[i]))}

Min(S) == CHOOSE x \in S : \A y \in S : x <= y

\* the positions of the active mocks of ms whose matcher accepts the request
Acceptors(ms, request) ==
    {i \in 1..Len(ms) : ms[i].active /\ request \in ms[i].matcher}

\* the outcome of resolving the issued id h in the current state
Resolves(h) == index(mocks, generation, MockIdOf(h))

\* C1: handle_request returns the response rendered by the active accepting
\* mock of lowest index, however many later mocks accept the request too.
C1_FirstMatchWins ==
    [][ result'.op = "handle_request" =>
          LET request == result'.arg[1]
              accepting == Acceptors(mocks, request)
          IN  accepting # {} =>
                LET first == mocks[Min(accepting)]
                IN  result'.response =
                        Some([status |-> first.response.status, mock |-> first.name])
      ]_vars

\* C1 witness: a request two active mocks accept was answered by the first.
C1_Witness ==
    /\ result.op = "handle_request"
    /\ Cardinality(Acceptors(mocks, result.arg[1])) = 2
    /\ result.response[1].mock = mocks[1].name
    /\ mocks[1].response.status # mocks[2].response.status

\* C2: a MockId issued before a reset() call fails resolution after that
\* reset, also when a new mock has been registered at its index.
C2_IdIssuedBeforeResetFails ==
    \A h \in issued : h.resets < resets => Resolves(h).outcome # "ok"

\* C3: once the generation check rejects a MockId it rejects it for ever,
\* whatever register and reset calls follow.
C3_StaleIsPermanent ==
    [][ \A h \in issued :
          h.generation # generation => h.generation # generation' ]_vars

\* C4: generation starts at 0 and after k calls of reset it is k; nothing
\* but reset changes it.
C4_GenerationCountsResets ==
    /\ generation = resets
    /\ (result.op = "new" => generation = 0)

\* C5: after deactivate(h) succeeded, no handle_request selects the mock h
\* resolved to (a request that mock alone accepts gets the not-found
\* response), while verify(h) and verify_all still report it.
C5_DeactivatedIsSkippedButVerified ==
    [][ /\ result'.op = "handle_request" =>
             /\ \A i \in 1..Len(mocks) :
                    mocks[i].name \in deactivated =>
                        /\ result'.response[1].mock # mocks[i].name
                        /\ mocks'[i] = mocks[i]
             /\ LET accepting == {i \in 1..Len(mocks) : result'.arg[1] \in mocks[i].matcher}
                IN  (\A i \in accepting : mocks[i].name \in deactivated) =>
                        result'.response[1].status = NotFound
        /\ result'.op = "verify" /\ result'.outcome = "ok" =>
             LET target == mocks[result'.arg[1].index + 1]
             IN  target.name \in deactivated =>
                     result'.reports = <<ActiveMock_verify(target)>>
        /\ result'.op = "verify_all" =>
             \A i \in Unsatisfied(mocks) :
                 mocks[i].name \in deactivated =>
                     ActiveMock_verify(mocks[i]) \in Reported(result'.reports)
      ]_vars

\* C5 witness: a request only a deactivated mock accepts got the not-found
\* response.
C5_Witness ==
    /\ result.op = "handle_request"
    /\ result.response[1].status = NotFound
    /\ \E i \in 1..Len(mocks) :
           /\ result.arg[1] \in mocks[i].matcher
           /\ mocks[i].name \in deactivated

\* C6: verify_all returns Success iff every mock, active or not, is
\* satisfied; otherwise Failure with exactly the reports of the unsatisfied
\* mocks, one each, in index order.
C6_VerifyAllReportsExactlyTheFailures ==
    result.op = "verify_all" =>
        LET failing == Unsatisfied(mocks)
            reports == result.reports
        IN  /\ result.verdict = "Success" <=> failing = {}
            /\ result.verdict \in {"Success", "Failure"}
            /\ Len(reports) = Cardinality(failing)
            /\ \A k \in 1..Len(reports) :
                   /\ reports[k].position_in_set + 1 \in failing
                   /\ reports[k] = ActiveMock_verify(mocks[reports[k].position_in_set + 1])
            /\ \A k, l \in 1..Len(reports) :
                   k < l => reports[k].position_in_set < reports[l].position_in_set

\* C6 witness: a Failure listing two mocks, one of them deactivated.
C6_Witness ==
    /\ result.op = "verify_all"
    /\ result.verdict = "Failure"
    /\ Len(result.reports) = 2
    /\ \E i \in Unsatisfied(mocks) : ~mocks[i].active

\* C7: with mocks that each expect exactly one call and accept disjoint
\* requests, verify_all's failure list holds exactly the mocks that answered
\* a number of requests other than 1, each with expected 1 and that number.
C7_VerificationTracksDispatches ==
    (/\ result.op = "verify_all"
     /\ \A i \in 1..Len(mocks) : mocks[i].expected = 1
     /\ \A i, j \in 1..Len(mocks) : i # j => mocks[i].matcher \cap mocks[j].matcher = {})
    => /\ {r.mock : r \in Reported(result.reports)} =
              {n \in DOMAIN answered : answered[n] # 1}
       /\ \A r \in Reported(result.reports) :
              r.expected = 1 /\ r.n_matched_requests = answered[r.mock]
       /\ result.verdict = "Success" <=> \A n \in DOMAIN answered : answered[n] = 1

\* C7 witness: A and B registered, only A's request dispatched: the failure
\* list is B's report alone, expected 1, got 0.
C7_Witness ==
    /\ result.op = "verify_all"
    /\ Len(mocks) = 2
    /\ mocks[1].matcher = {"/a"} /\ mocks[2].matcher = {"/b"}
    /\ answered[mocks[1].name] = 1
    /\ result.verdict = "Failure"
    /\ Len(result.reports) = 1
    /\ result.reports[1].mock = mocks[2].name
    /\ result.reports[1].expected = 1
    /\ result.reports[1].n_matched_requests = 0

\* C8: when no active mock accepts the request, handle_request returns the
\* 404 response without a delay, does not panic and records no invocation.
C8_NoMatchIsNotFound ==
    [][ (/\ result'.op = "handle_request"
         /\ Acceptors(mocks, result'.arg[1]) = {})
        => /\ result'.response = Some([status |-> NotFound, mock |-> 0])
           /\ result'.delay = None
           /\ result'.outcome = "ok"
           /\ mocks' = mocks
           /\ answered' = answered
      ]_vars

\* C8 witness: a 404 for a request that a deactivated mock of the set would
\* accept, next to an active mock that rejects it.
C8_Witness ==
    /\ result.op = "handle_request"
    /\ result.response = Some([status |-> NotFound, mock |-> 0])
    /\ \E i, j \in 1..Len(mocks) :
           /\ ~mocks[i].active /\ result.arg[1] \in mocks[i].matcher
           /\ mocks[j].active /\ result.arg[1] \notin mocks[j].matcher

\* C9: register succeeds, returns the id (length before the call, current
\* generation) of the new mock, appends exactly one mock, leaves generation
\* and every existing mock as they were, and every id that resolved before
\* the call resolves to the same mock after it.
C9_RegisterAppends ==
    [][ result'.op = "register" =>
          /\ result'.outcome = "ok"
          /\ result'.id = Some([index |-> Len(mocks), generation |-> generation])
          /\ Len(mocks') = Len(mocks) + 1
          /\ mocks'[result'.id[1].index + 1].name = registrations'
          /\ generation' = generation
          /\ \A i \in 1..Len(mocks) : mocks'[i] = mocks[i]
          /\ \A h \in issued :
                 Resolves(h).outcome = "ok" =>
                     /\ index(mocks', generation', MockIdOf(h)) = Resolves(h)
                     /\ mocks'[Resolves(h).position] = mocks[Resolves(h).position]
      ]_vars

\* C9 witness: a second mock was registered and the id of the first still
\* resolves.
C9_Witness ==
    /\ result.op = "register"
    /\ result.id = Some([index |-> 1, generation |-> generation])
    /\ \E h \in issued : h.index = 0 /\ Resolves(h).outcome = "ok"

\* C10: reset leaves the sequence empty; under every other operation the
\* sequence does not shrink and no mock changes position.
C10_OnlyResetRemoves ==
    [][ /\ result'.op = "reset" => mocks' = <<>>
        /\ result'.op # "reset" =>
             /\ Len(mocks') >= Len(mocks)
             /\ \A i \in 1..Len(mocks) :
                    /\ mocks'[i].name = mocks[i].name
                    /\ mocks'[i].position_in_set = i - 1
      ]_vars

\* C10 witness: a reset emptied a set that held a mock.
C10_Witness ==
    /\ result.op = "reset"
    /\ mocks = <<>>
    /\ \E h \in issued : h.resets = resets - 1

\* C11: deactivate or verify given an id whose generation differs from the
\* set's panics as stale, returns no report and changes neither the mocks
\* nor the generation.
C11_StaleIdPanics ==
    [][ (/\ result'.op \in {"deactivate", "verify"}
         /\ result'.arg[1].generation # generation)
        => /\ result'.outcome = "stale"
           /\ result'.reports = NoReport
           /\ mocks' = mocks
           /\ generation' = generation
      ]_vars

\* C11 witness: deactivate panicked as stale although a mock sits at the
\* id's index and is still active.
C11_Witness ==
    /\ result.op = "deactivate"
    /\ result.outcome = "stale"
    /\ result.arg[1].index < Len(mocks)
    /\ mocks[result.arg[1].index + 1].active

\* C12: every issued id whose generation equals the set's has an index
\* below the length of the sequence and addresses the mock it was issued for.
C12_CurrentIdAddressesItsMock ==
    \A h \in issued :
        h.generation = generation =>
            /\ h.index < Len(mocks)
            /\ mocks[h.index + 1].name = h.mock

\* C13: a handle_request that finds a match records exactly one invocation
\* against the selected mock and leaves every other mock as it was.
C13_OneInvocationRecorded ==
    [][ (/\ result'.op = "handle_request"
         /\ Acceptors(mocks, result'.arg[1]) # {})
        => LET first == Min(Acceptors(mocks, result'.arg[1]))
           IN  /\ Len(mocks') = Len(mocks)
               /\ mocks'[first] =
                      [mocks[first] EXCEPT !.n_matched_requests = @ + 1]
               /\ \A i \in 1..Len(mocks) : i # first => mocks'[i] = mocks[i]
      ]_vars

\* C13 witness: of two active mocks that accept the request, the first has
\* one invocation and the second none.
C13_Witness ==
    /\ result.op = "handle_request"
    /\ Cardinality(Acceptors(mocks, result.arg[1])) = 2
    /\ mocks[1].n_matched_requests = 1
    /\ mocks[2].n_matched_requests = 0

\* C14: handle_request never surfaces an expectation: whatever the counts,
\* it selects the first active accepting mock without panicking, also one
\* that has already had all the calls it expects. The violation shows only
\* in the reports verify and verify_all return: verify_all never panics, and
\* verify given an id that addresses a mock returns that mock's report,
\* satisfied or not.
C14_ExpectationsSurfaceOnlyInReports ==
    [][ /\ (/\ result'.op = "handle_request"
            /\ Acceptors(mocks, result'.arg[1]) # {})
           => LET first == mocks[Min(Acceptors(mocks, result'.arg[1]))]
              IN  /\ result'.outcome = "ok"
                  /\ result'.response[1].mock = first.name
                  /\ result'.response[1].status = first.response.status
        /\ result'.op = "verify_all" =>
              /\ result'.outcome = "ok"
              /\ \A i \in Unsatisfied(mocks) :
                     ActiveMock_verify(mocks[i]) \in Reported(result'.reports)
        /\ (/\ result'.op = "verify"
            /\ result'.arg[1].generation = generation
            /\ result'.arg[1].index < Len(mocks))
           => /\ result'.outcome = "ok"
              /\ result'.reports =
                     <<ActiveMock_verify(mocks[result'.arg[1].index + 1])>>
      ]_vars

\* C14 witness: a mock that expects no call at all was selected and
\* answered.
C14_Witness ==
    /\ result.op = "handle_request"
    /\ \E i \in 1..Len(mocks) :
           /\ result.response[1].mock = mocks[i].name
           /\ mocks[i].n_matched_requests > mocks[i].expected

\* C15: handle_request returns a delay iff a mock was selected and its
\* response template has one, and the delay is the template's.
C15_DelayIsTheTemplates ==
    [][ result'.op = "handle_request" =>
          LET accepting == Acceptors(mocks, result'.arg[1])
          IN  result'.delay =
                  IF accepting = {}
                  THEN None
                  ELSE mocks[Min(accepting)].response.delay
      ]_vars

\* C15 witness: a delay was returned with the response of the second mock,
\* the first having no delay.
C15_Witness ==
    /\ result.op = "handle_request"
    /\ result.delay = Some(5)
    /\ Len(mocks) = 2
    /\ mocks[1].response.delay = None
    /\ result.response[1].mock = mocks[2].name

\* C16: no two register calls return the same MockId, and the ids issued
\* between two resets have the indices 0, 1, 2, ... without a repeat.
C16_MockIdIsUnique ==
    /\ \A g, h \in issued : MockIdOf(g) = MockIdOf(h) => g.mock = h.mock
    /\ \A k \in {h.resets : h \in issued} :
           LET ids == {h \in issued : h.resets = k}
           IN  {h.index : h \in ids} = 0..(Cardinality(ids) - 1)

\* C17: within a generation deactivation is permanent and idempotent: no
\* operation but reset makes an inactive mock active again, and a
\* deactivate that resolves to an inactive mock changes nothing.
C17_DeactivationIsPermanent ==
    [][ /\ result'.op # "reset" =>
             \A i \in 1..Len(mocks) :
                 ~mocks[i].active =>
                     /\ i <= Len(mocks')
                     /\ mocks'[i].name = mocks[i].name
                     /\ ~mocks'[i].active
        /\ (/\ result'.op = "deactivate"
            /\ result'.outcome = "ok"
            /\ ~mocks[result'.arg[1].index + 1].active)
           => mocks' = mocks
      ]_vars

\* C17 witness: a mock deactivated earlier is still inactive after a later
\* register call.
C17_Witness ==
    /\ result.op = "register"
    /\ Len(mocks) = 2
    /\ ~mocks[1].active
    /\ mocks[1].name \in deactivated

\* C18: a deactivate that resolves its id clears the active flag of the
\* addressed mock and changes nothing else: not the length, the generation,
\* another mock, or any count; the target's report is the same as before.
C18_DeactivateChangesOnlyTheFlag ==
    [][ (result'.op = "deactivate" /\ result'.outcome = "ok")
        => LET p == result'.arg[1].index + 1
           IN  /\ Len(mocks') = Len(mocks)
               /\ generation' = generation
               /\ ~mocks'[p].active
               /\ mocks'[p] = [mocks[p] EXCEPT !.active = FALSE]
               /\ \A i \in 1..Len(mocks) : i # p => mocks'[i] = mocks[i]
               /\ ActiveMock_verify(mocks'[p]) = ActiveMock_verify(mocks[p])
      ]_vars

\* C18 witness: the first of two mocks was deactivated after it had been
\* called; it keeps its count and the second mock is still active.
C18_Witness ==
    /\ result.op = "deactivate"
    /\ result.outcome = "ok"
    /\ result.arg[1].index = 0
    /\ Len(mocks) = 2
    /\ ~mocks[1].active
    /\ mocks[1].n_matched_requests = 1
    /\ mocks[2].active

\* C19: verify and verify_all change nothing of the set: not the mocks
\* (flags and counts included) and not the generation.
C19_VerifyIsReadOnly ==
    [][ result'.op \in {"verify", "verify_all"} =>
          /\ mocks' = mocks
          /\ generation' = generation
          /\ deactivated' = deactivated
          /\ answered' = answered
      ]_vars

\* C19 witness: verify returned the report of an active mock that has been
\* called, and the mock is still active with its count.
C19_Witness ==
    /\ result.op = "verify"
    /\ result.outcome = "ok"
    /\ LET target == mocks[result.arg[1].index + 1]
       IN  /\ target.active
           /\ target.n_matched_requests = 1
           /\ result.reports = <<ActiveMock_verify(target)>>

\* C20: whichever caller holds the id and however the calls interleave, a
\* deactivate or verify either panics or acts on the mock the id was issued
\* for: the generation check and the access are one step.
C20_ActsOnItsMockOrPanics ==
    [][ result'.op \in {"deactivate", "verify"} =>
          \/ result'.outcome # "ok"
          \/ /\ result'.arg[1].index < Len(mocks)
             /\ mocks[result'.arg[1].index + 1].name = result'.arg[1].mock
      ]_vars

====
